---- MODULE Spec2Model ----
(***************************************************************************)
(* Model of the stream proxy server of src/index.js: the segment cache     *)
(* (tsCache), the two proxy routes (/proxy-stream and /viper-proxy), the   *)
(* /clear-cache route and the manifest rewriter.                           *)
(*                                                                         *)
(* JavaScript runs a handler to completion between two awaits, so every    *)
(* action below is the code of one handler from one suspension point to    *)
(* the next: the arrival of a request up to `await fetch`, the resolution  *)
(* of the fetch up to the body read, the resolution of the body read up to *)
(* the response.                                                           *)
(*                                                                         *)
(* Strings are sequences of tokens: a URL "https://h.xyz/seg.ts?x=1" is    *)
(* <<"https://", "h.xyz", "/", "seg", ".", "ts", "?", "x=1">>, so that     *)
(* endsWith, startsWith, URL parsing, the regular expressions of the       *)
(* rewriters and the template strings are computed on the text and not     *)
(* assumed.  The characters "/", ".", "?", ":" and "#" of an input are     *)
(* tokens of their own, and a manifest is the sequence of its lines.       *)
(***************************************************************************)
EXTENDS Integers, Sequences, FiniteSets, Bags, TLC

VARIABLES
    cache,       \* tsCache.data: key -> [data, contentType, t, src]
    now,         \* Date.now(), in seconds
    adminToken,  \* process.env.ADMIN_TOKEN
    reqs,        \* the bag of the requests in flight or answered
    rewrite      \* a call of a manifest rewriter: its arguments and results

vars == <<cache, now, adminToken, reqs, rewrite>>

----------------------------------------------------------------------------
(* Bounds of the model *)

\* number of requests in flight or answered and not yet forgotten
MaxReq == 2
\* the clock stops here
MaxNow == 1200
\* number of lines of a manifest given to a rewriter
MaxLines == 3

(* Program constants *)

\* new NodeCache({ stdTTL: 600, ... }), seconds
stdTTL == 600
\* new NodeCache({ ..., checkperiod: 120 }), seconds
checkperiod == 120

\* JavaScript's undefined / null, for a token or a content type that is absent
Undefined == "undefined"
NoCT == "null"

----------------------------------------------------------------------------
(* Strings as token sequences *)

\* String.prototype.endsWith
EndsWith(s, suffix) ==
    /\ Len(s) >= Len(suffix)
    /\ SubSeq(s, Len(s) - Len(suffix) + 1, Len(s)) = suffix

\* index of the first "?" token of s, or Len(s) + 1
RECURSIVE QueryStart(_, _)
QueryStart(s, i) ==
    IF i > Len(s) THEN i
    ELSE IF s[i] = "?" THEN i
    ELSE QueryStart(s, i + 1)

Schemes == {"https://", "http://"}

\* new URL(s): throws a TypeError unless s is scheme, host, rest;
\* .hostname (the name alone), .host (the name and the port, if any),
\* .pathname (never empty: "/" for a bare origin), .search
UrlParse(s) ==
    IF Len(s) >= 2 /\ s[1] \in Schemes /\ s[2] \notin {"?", ".", "/", ":", "#"}
    THEN LET hasPort == Len(s) >= 4 /\ s[3] = ":"
             p == IF hasPort THEN 5 ELSE 3
             q == QueryStart(s, p)
             path == SubSeq(s, p, q - 1)
         IN [ok |-> TRUE,
             protocol |-> s[1],
             hostname |-> s[2],
             host |-> IF hasPort THEN <<s[2], ":", s[4]>> ELSE <<s[2]>>,
             pathname |-> IF path = <<>> THEN <<"/">> ELSE path,
             search |-> IF q >= Len(s) THEN <<>> ELSE SubSeq(s, q, Len(s))]
    ELSE [ok |-> FALSE, protocol |-> "", hostname |-> "", host |-> <<>>,
          pathname |-> <<>>, search |-> <<>>]

\* `https://embed.su/api/proxy/viper/${hostname}${pathname}${search}`
TransformUrl(u) ==
    <<"https://", "embed.su", "/api/proxy/viper/">>
        \o <<u.hostname>> \o u.pathname \o u.search

\* mutant of IsCacheable: the manifest extension among the cached ones
IsCacheableOrManifest(url) ==
    \/ EndsWith(url, <<".", "jpg">>)
    \/ EndsWith(url, <<".", "html">>)
    \/ EndsWith(url, <<".", "ts">>)
    \/ EndsWith(url, <<".", "m3u8">>)

\* streamUrl.endsWith('.jpg') || streamUrl.endsWith('.html') || streamUrl.endsWith('.ts')
IsCacheable(url) ==
    \/ EndsWith(url, <<".", "jpg">>)
    \/ EndsWith(url, <<".", "html">>)
    \/ EndsWith(url, <<".", "ts">>)

\* streamUrl.endsWith('m3u8')
IsManifest(url) == EndsWith(url, <<"m3u8">>)

----------------------------------------------------------------------------
(* The inputs *)

SegTs == <<"https://", "h.xyz", "/", "seg", ".", "ts">>
Playlist == <<"https://", "h.xyz", "/", "pl", ".", "m3u8">>
Live == <<"https://", "h.xyz", "/", "live">>
BadTs == <<"seg", ".", "ts">>
Empty == <<>>

ClientUrls == {SegTs, Playlist, Live, BadTs, Empty}

\* URLs with a query string, with a port, and ending in m3u8 without a dot
SegTsQuery == <<"https://", "h.xyz", "/", "seg", ".", "ts", "?", "x=1">>
SegTsPort == <<"https://", "h.xyz", ":", "8080", "/", "seg", ".", "ts">>
ListM3u8 == <<"https://", "h.xyz", "/", "list", "m3u8">>

TargetUrls == {SegTs, Playlist, SegTsQuery, SegTsPort, ListM3u8}

Tokens == {"s3cret", "admin-token", "wrong"}
AdminTokens == {"s3cret"}

Statuses == {200, 404}
\* what upstream may answer a fetch with: the content-type header and the
\* bytes of the body of one Response object
Responses ==
    { [contentType |-> NoCT, body |-> <<"b1">>],
      [contentType |-> "video/mp2t", body |-> <<"b2">>] }
NoResponse == [contentType |-> NoCT, body |-> <<>>]
\* the bytes of an upstream body that is piped
Streamed == <<"s1">>

Manifests ==
    { << <<"#", "EXTM3U">>,
         <<"https://", "cdn.example", "/", "a", ".", "ts">>,
         <<"#", "EXT-X-ENDLIST">> >> }

\* the lines of the manifests given to the rewriters
Lines ==
    { <<"#", "EXTM3U">>,
      <<"https://", "cdn.example", "/", "a", ".", "ts">>,
      <<"http://", "cdn.example", "/", "a", ".", "ts">>,
      <<"#", "audio", ".", "m3u8">>,
      <<"seg", ".", "ts">>,
      <<"/", "v", "/", "seg", ".", "ts">>,
      <<"#", "EXT-X-ENDLIST">> }

ManifestInputs == UNION { [1..n -> Lines] : n \in 0..MaxLines }

\* the URL a manifest was fetched from: one that parses, one that does not
PlaylistPort == <<"https://", "h.xyz", ":", "8080", "/", "v", "/", "pl", ".", "m3u8">>
BadPlaylist == <<"pl", ".", "m3u8">>
OriginalUrls == {PlaylistPort, BadPlaylist}

----------------------------------------------------------------------------
(* The manifest rewriter, direct mode *)

\* the callback of content.replace(/(^https:\/\/.*$)/gm, ...) on one line
RewriteLineDirect(line) ==
    IF Len(line) >= 1 /\ line[1] = "https://"
    THEN IF line[1] # "#" THEN <<"/proxy-stream/">> \o line ELSE line
    ELSE line

rewriteM3u8ContentDirect(content) ==
    [i \in 1..Len(content) |-> RewriteLineDirect(content[i])]

----------------------------------------------------------------------------
(* The manifest rewriter, context-aware mode *)

\* index of the last "/" token of s at or before i, or 0
RECURSIVE LastSlash(_, _)
LastSlash(s, i) ==
    IF i = 0 THEN 0
    ELSE IF s[i] = "/" THEN i
    ELSE LastSlash(s, i - 1)

\* baseUrl: pathname.split('/'), pop(), join('/'), then
\* `${urlObj.protocol}//${urlObj.host}${basePath}/`; '' when new URL throws
BaseUrl(originalUrl) ==
    LET u == UrlParse(originalUrl)
        basePath == SubSeq(u.pathname, 1, LastSlash(u.pathname, Len(u.pathname)) - 1)
    IN IF u.ok THEN <<u.protocol>> \o u.host \o basePath \o <<"/">>
       ELSE <<>>

\* /^((?!#).+\.ts|.+\.m3u8|.+\.jpg|.+\.html)$/gm matches the line: only the
\* first alternative carries the (?!#)
MatchesContext(line) ==
    /\ Len(line) >= 3
    /\ \/ line[1] # "#" /\ EndsWith(line, <<".", "ts">>)
       \/ EndsWith(line, <<".", "m3u8">>)
       \/ EndsWith(line, <<".", "jpg">>)
       \/ EndsWith(line, <<".", "html">>)

\* the callback of content.replace(...) on one line
RewriteLineContext(line, originalUrl) ==
    LET u == UrlParse(originalUrl)
    IN IF ~MatchesContext(line) THEN line
       ELSE IF line[1] \in Schemes
       THEN <<"/proxy-stream/">> \o line
       ELSE IF line[1] = "/"
       THEN IF u.ok
            THEN <<"/proxy-stream/">> \o <<u.protocol>> \o u.host \o line
            ELSE line
       ELSE <<"/proxy-stream/">> \o BaseUrl(originalUrl) \o line

rewriteM3u8Content(content, originalUrl) ==
    [i \in 1..Len(content) |-> RewriteLineContext(content[i], originalUrl)]

\* no rewriter has been called
NoRewrite ==
    [pc |-> "none", content |-> <<>>, originalUrl |-> <<>>,
     out |-> <<>>, again |-> <<>>]

\* rewriteM3u8ContentDirect(content)
RewriteDirect ==
    /\ rewrite.pc = "input"
    /\ rewrite' = [rewrite EXCEPT !.pc = "direct",
                       !.out = rewriteM3u8ContentDirect(rewrite.content)]
    /\ UNCHANGED <<cache, now, adminToken, reqs>>

\* rewriteM3u8ContentDirect applied to its own output
RewriteDirectAgain ==
    /\ rewrite.pc = "direct"
    /\ rewrite' = [rewrite EXCEPT !.pc = "direct2",
                       !.again = rewriteM3u8ContentDirect(rewrite.out)]
    /\ UNCHANGED <<cache, now, adminToken, reqs>>

\* rewriteM3u8Content(content, originalUrl)
RewriteContext ==
    /\ rewrite.pc = "input"
    /\ rewrite' = [rewrite EXCEPT !.pc = "context",
                       !.out = rewriteM3u8Content(rewrite.content,
                                                  rewrite.originalUrl)]
    /\ UNCHANGED <<cache, now, adminToken, reqs>>

----------------------------------------------------------------------------
(* The segment cache: node-cache with stdTTL and deleteOnExpire *)

Remove(key) == [k \in DOMAIN cache \ {key} |-> cache[k]]

\* mutant of Expired: the TTL counted twice
ExpiredLate(key) == cache[key].t + stdTTL < now

\* NodeCache._check: an entry is expired once its time t is before the clock
Expired(key) == cache[key].t < now

\* what tsCache.get(key) returns is defined: the key is present and not expired
CacheHas(key) == key \in DOMAIN cache /\ ~Expired(key)

\* what tsCache.get(key) returns: the stored { data, contentType }, or undefined
CacheGet(key) ==
    IF CacheHas(key)
    THEN [data |-> cache[key].data, contentType |-> cache[key].contentType]
    ELSE Undefined

\* tsCache.get(key) deletes the entry it finds expired
CacheAfterGet(key) ==
    IF key \in DOMAIN cache /\ Expired(key) THEN Remove(key) ELSE cache

\* mutant of CacheSet: an entry that exists is kept
CacheSetIfAbsent(key, data, contentType, src) ==
    [k \in DOMAIN cache \cup {key} |->
        IF k = key /\ key \notin DOMAIN cache
        THEN [data |-> data, contentType |-> contentType,
              t |-> now + stdTTL, src |-> src]
        ELSE cache[k]]

\* mutant of CacheSet: an entry that exists keeps its content type
CacheSetKeepType(key, data, contentType, src) ==
    [k \in DOMAIN cache \cup {key} |->
        IF k = key
        THEN [data |-> data,
              contentType |-> IF key \in DOMAIN cache
                              THEN cache[key].contentType ELSE contentType,
              t |-> now + stdTTL, src |-> src]
        ELSE cache[k]]

\* tsCache.set(key, { data, contentType }): the entry lives stdTTL from now.
\* src is a history field: the URL the payload was fetched from.
CacheSet(key, data, contentType, src) ==
    [k \in DOMAIN cache \cup {key} |->
        IF k = key
        THEN [data |-> data, contentType |-> contentType,
              t |-> now + stdTTL, src |-> src]
        ELSE cache[k]]

\* tsCache.keys().length
KeysCount == Cardinality(DOMAIN cache)

\* tsCache.flushAll()
FlushAll == [k \in {} |-> 0]

----------------------------------------------------------------------------
(* Requests and responses.  A request is a record of the locals of its     *)
(* handler, its position (pc) and its response; reqs is the bag of them.   *)

Requests == BagToSet(reqs)
Add(r) == reqs (+) SetToBag({r})
Drop(r) == reqs (-) SetToBag({r})
Replace(r, r2) == (reqs (-) SetToBag({r})) (+) SetToBag({r2})
Room == BagCardinality(reqs) < MaxReq

NoError == [prefix |-> "", cause |-> "", code |-> 0]

\* fetches, gets, sets and sent are history fields: the upstream fetches
\* issued, the cache lookups, the cache puts and the responses sent by the
\* request so far; upstream is the status its fetch resolved with; found is
\* what its cache lookup met ("hit", "expired", "absent"), kept until the
\* fetch that follows a miss is over; cleared tells that an authorised
\* /clear-cache has run since the request missed, kept until the request ends.
Idle ==
    [pc |-> "idle", route |-> "none", url |-> <<>>, fetchUrl |-> <<>>,
     response |-> NoResponse, upstream |-> 0,
     status |-> 0, hdrCT |-> NoCT, body |-> <<>>, error |-> NoError,
     via |-> "none", fetches |-> 0, gets |-> 0, sets |-> 0, sent |-> 0,
     found |-> "none", cleared |-> FALSE, token |-> Undefined, removed |-> 0]

\* res.status(400).json({ error: ... })
BadRequest(r, message) ==
    [r EXCEPT !.pc = "done", !.status = 400, !.hdrCT = "application/json",
              !.error = [prefix |-> message, cause |-> "", code |-> 0],
              !.via = "error", !.sent = @ + 1]

\* mutant of ProxyError: a failed fetch is tried a second time
ProxyErrorRetry(r, cause, code) ==
    IF r.pc = "fetching" /\ r.fetches = 1
    THEN [r EXCEPT !.fetches = @ + 1]
    ELSE [r EXCEPT !.pc = "done", !.status = 500, !.hdrCT = "application/json",
                   !.error = [prefix |-> "Failed to proxy stream: ",
                              cause |-> cause, code |-> code],
                   !.via = "error", !.sent = @ + 1, !.response = NoResponse,
                   !.cleared = FALSE]

\* the catch block: res.status(500).json({ error: 'Failed to proxy stream: ' + error.message })
\* (the handler is over: its local response is gone)
ProxyError(r, cause, code) ==
    [r EXCEPT !.pc = "done", !.status = 500, !.hdrCT = "application/json",
              !.error = [prefix |-> "Failed to proxy stream: ",
                         cause |-> cause, code |-> code],
              !.via = "error", !.sent = @ + 1, !.response = NoResponse,
              !.cleared = FALSE]

\* mutant of ServeCached: the stored content type is not sent
ServeCachedNoType(r, entry) ==
    [r EXCEPT !.pc = "done", !.status = 200,
              !.body = entry.data, !.via = "cache", !.sent = @ + 1]

\* the cache hit: res.setHeader('Content-Type', cached.contentType) when there
\* is one, return res.send(cached.data)
ServeCached(r, entry) ==
    [r EXCEPT !.pc = "done", !.status = 200,
              !.hdrCT = IF entry.contentType # NoCT THEN entry.contentType ELSE @,
              !.body = entry.data, !.via = "cache", !.sent = @ + 1]

\* fetch(url, { headers }): the request goes out and the handler is suspended
IssueFetch(r, target) ==
    [r EXCEPT !.pc = "fetching", !.fetchUrl = target, !.fetches = @ + 1]

\* fetch(target) when target is no URL rejects with a TypeError before
\* anything is sent; the catch block answers
FetchOrThrow(r, target) ==
    IF UrlParse(target).ok
    THEN IssueFetch(r, target)
    ELSE ProxyError(r, "Invalid URL", 0)

\* the request r after const cached = tsCache.get(key)
Looked(r, key) ==
    [r EXCEPT !.gets = @ + 1,
              !.found = IF CacheHas(key) THEN "hit"
                        ELSE IF key \in DOMAIN cache THEN "expired"
                        ELSE "absent"]

\* mutant of CheckCacheThenFetch: the cache is looked up whatever the extension
CheckCacheAlways(r, key, target) ==
    /\ cache' = CacheAfterGet(key)
    /\ reqs' = Add(IF CacheHas(key)
                   THEN ServeCached(Looked(r, key), cache[key])
                   ELSE FetchOrThrow(Looked(r, key), target))

\* the handler from the try to the await fetch, for the cache key `key` and
\* the fetch target `target`: the cache check, then the fetch
CheckCacheThenFetch(r, key, target) ==
    IF IsCacheable(key)
    THEN /\ cache' = CacheAfterGet(key)
         /\ reqs' = Add(IF CacheHas(key)
                        THEN ServeCached(Looked(r, key), cache[key])
                        ELSE FetchOrThrow(Looked(r, key), target))
    ELSE /\ cache' = cache
         /\ reqs' = Add(FetchOrThrow(r, target))

\* GET /proxy-stream/:url(*), up to the await fetch
ProxyStream(streamUrl) ==
    /\ Room
    /\ LET r == [Idle EXCEPT !.route = "proxy-stream", !.url = streamUrl]
       IN IF streamUrl = <<>>
          THEN /\ reqs' = Add(BadRequest(r, "Stream URL is required"))
               /\ cache' = cache
          ELSE CheckCacheThenFetch(r, streamUrl, streamUrl)
    /\ UNCHANGED <<now, adminToken, rewrite>>

\* GET /viper-proxy/:url(*), up to the await fetch
ViperProxy(originalUrl) ==
    /\ Room
    /\ LET r == [Idle EXCEPT !.route = "viper-proxy", !.url = originalUrl]
           u == UrlParse(originalUrl)
       IN IF originalUrl = <<>>
          THEN /\ reqs' = Add(BadRequest(r, "Stream URL is required"))
               /\ cache' = cache
          ELSE IF ~u.ok
          THEN /\ reqs' = Add(BadRequest(r, "Invalid URL format: "))
               /\ cache' = cache
          ELSE CheckCacheThenFetch(r, originalUrl, TransformUrl(u))
    /\ UNCHANGED <<now, adminToken, rewrite>>

----------------------------------------------------------------------------
(* The handlers after the await fetch.  The code of /viper-proxy (lines    *)
(* 241-284) is the code of /proxy-stream (lines 125-168) with streamUrl    *)
(* renamed originalUrl; r.url is that variable, r.fetchUrl what was        *)
(* fetched.                                                                *)

\* mutant of Ok: no upper end of the range
OkNoUpperEnd(status) == status >= 200

\* response.ok
Ok(status) == status >= 200 /\ status <= 299

\* await fetch(...) rejects (network failure): the catch block answers
FetchRejected(r) ==
    /\ r.pc = "fetching"
    /\ reqs' = Replace(r, ProxyError([r EXCEPT !.found = "none"], "network", 0))
    /\ UNCHANGED <<cache, now, adminToken, rewrite>>

\* await fetch(...) resolves: the status check, the content type, and the
\* branch on the extension up to the next await (or the pipe)
FetchResolved(r, status, response) ==
    /\ r.pc = "fetching"
    /\ LET g == [r EXCEPT !.upstream = status, !.found = "none"]
           contentType == response.contentType
           h == [g EXCEPT !.response = response,
                          !.hdrCT = IF contentType # NoCT THEN contentType ELSE @]
       IN reqs' = Replace(r,
              IF ~Ok(status) THEN ProxyError(g, "Failed to fetch: ", status)
              ELSE IF IsManifest(h.url) THEN [h EXCEPT !.pc = "text"]
              ELSE IF IsCacheable(h.url) THEN [h EXCEPT !.pc = "buffer"]
              ELSE [h EXCEPT !.pc = "piping", !.via = "pipe"])
    /\ UNCHANGED <<cache, now, adminToken, rewrite>>

\* await response.text() resolves: rewrite and send, no caching
TextRead(r, data) ==
    /\ r.pc = "text"
    /\ reqs' = Replace(r,
           [r EXCEPT !.pc = "done", !.status = 200,
                     !.body = rewriteM3u8ContentDirect(data),
                     !.via = "upstream", !.sent = @ + 1,
                     !.response = NoResponse])
    /\ UNCHANGED <<cache, now, adminToken, rewrite>>

\* await response.buffer() resolves: tsCache.set(url, ...) and send
BufferRead(r) ==
    /\ r.pc = "buffer"
    /\ LET buffer == r.response.body
       IN /\ cache' = CacheSet(r.url, buffer, r.response.contentType, r.fetchUrl)
          /\ reqs' = Replace(r,
                 [r EXCEPT !.pc = "done", !.status = 200, !.body = buffer,
                           !.via = "upstream", !.sets = @ + 1, !.sent = @ + 1,
                           !.response = NoResponse, !.cleared = FALSE])
    /\ UNCHANGED <<now, adminToken, rewrite>>

\* await response.text() / response.buffer() rejects: the catch block answers
BodyFailed(r) ==
    /\ r.pc \in {"text", "buffer"}
    /\ reqs' = Replace(r, ProxyError(r, "body", 0))
    /\ UNCHANGED <<cache, now, adminToken, rewrite>>

\* response.body.pipe(res): the upstream stream ends, and pipe ends res
PipeEnd(r) ==
    /\ r.pc = "piping"
    /\ reqs' = Replace(r,
           [r EXCEPT !.pc = "done", !.status = 200, !.body = Streamed,
                     !.sent = @ + 1, !.response = NoResponse])
    /\ UNCHANGED <<cache, now, adminToken, rewrite>>

\* response.body.pipe(res): the upstream stream fails.  The handler has
\* returned, so its catch block is gone; pipe does not end res on an error
\* of its source: the response, begun or not, is never completed.
PipeError(r) ==
    /\ r.pc = "piping"
    /\ reqs' = Replace(r, [r EXCEPT !.pc = "stalled", !.response = NoResponse])
    /\ UNCHANGED <<cache, now, adminToken, rewrite>>

\* the client is gone and the request is forgotten
Forget(r) ==
    /\ r.pc \in {"done", "stalled"}
    /\ reqs' = Drop(r)
    /\ UNCHANGED <<cache, now, adminToken, rewrite>>

----------------------------------------------------------------------------
(* POST /clear-cache, the clock and the periodic sweep *)

\* token !== process.env.ADMIN_TOKEN && token !== 'admin-token'
Unauthorized(token) == token # adminToken /\ token # "admin-token"

\* the handler of r is suspended between its cache miss and its put
AwaitingPut(r) == r.pc \in {"fetching", "buffer"} /\ IsCacheable(r.url)

\* the request r once an authorised /clear-cache has run
Mark(r) == IF AwaitingPut(r) THEN [r EXCEPT !.cleared = TRUE] ELSE r

\* the bag of the requests once an authorised /clear-cache has run: nothing
\* is cancelled, the requests in flight stay in flight
Marked ==
    [m \in {Mark(r) : r \in Requests} |->
        LET u == [m EXCEPT !.cleared = FALSE]
        IN (IF m \in Requests THEN reqs[m] ELSE 0)
           + (IF m.cleared /\ AwaitingPut(m) /\ u \in Requests
              THEN reqs[u] ELSE 0)]

\* POST /clear-cache with body { token }
ClearCache(token) ==
    /\ Room
    /\ LET r == [Idle EXCEPT !.route = "clear-cache", !.token = token,
                             !.pc = "done", !.sent = @ + 1,
                             !.hdrCT = "application/json"]
       IN IF Unauthorized(token)
          THEN /\ reqs' = Add([r EXCEPT !.status = 403, !.via = "error",
                                        !.error = [prefix |-> "Unauthorized",
                                                   cause |-> "", code |-> 0]])
               /\ cache' = cache
          ELSE /\ reqs' = Marked (+) SetToBag(
                              {[r EXCEPT !.status = 200, !.removed = KeysCount]})
               /\ cache' = FlushAll
    /\ UNCHANGED <<now, adminToken, rewrite>>

\* time passes, a TTL at a time: an entry is met at the age 0, at the age
\* stdTTL exactly, and later
Tick ==
    /\ now + stdTTL <= MaxNow
    /\ now' = now + stdTTL
    /\ UNCHANGED <<cache, adminToken, reqs, rewrite>>

\* NodeCache._checkData, on a timer of period checkperiod: delete the
\* expired entries
Sweep ==
    /\ now >= checkperiod
    /\ cache' = [k \in {x \in DOMAIN cache : ~Expired(x)} |-> cache[k]]
    /\ UNCHANGED <<now, adminToken, reqs, rewrite>>

----------------------------------------------------------------------------

Init ==
    /\ cache = FlushAll
    /\ now = 0
    /\ adminToken \in AdminTokens
    /\ reqs = EmptyBag
    /\ rewrite = NoRewrite

Next ==
    \/ \E url \in ClientUrls : ProxyStream(url)
    \/ \E url \in ClientUrls : ViperProxy(url)
    \/ \E r \in Requests : FetchRejected(r)
    \/ \E r \in Requests, status \in Statuses, response \in Responses :
           FetchResolved(r, status, response)
    \/ \E r \in Requests, data \in Manifests : TextRead(r, data)
    \/ \E r \in Requests : BufferRead(r)
    \/ \E r \in Requests : BodyFailed(r)
    \/ \E r \in Requests : PipeEnd(r)
    \/ \E r \in Requests : PipeError(r)
    \/ \E r \in Requests : Forget(r)
    \/ \E token \in Tokens : ClearCache(token)
    \/ Tick
    \/ Sweep

Spec == Init /\ [][Next]_vars

\* the two proxy routes on the URLs of TargetUrls, upstream answering 200
NextUrls ==
    \/ \E url \in TargetUrls : ProxyStream(url)
    \/ \E url \in TargetUrls : ViperProxy(url)
    \/ \E r \in Requests, response \in Responses :
           FetchResolved(r, 200, response)
    \/ \E r \in Requests, data \in Manifests : TextRead(r, data)
    \/ \E r \in Requests : BufferRead(r)
    \/ \E r \in Requests : PipeEnd(r)
    \/ \E r \in Requests : Forget(r)

SpecUrls == Init /\ [][NextUrls]_vars

\* the rewriters alone, on every manifest of at most MaxLines lines
InitRewrite ==
    /\ cache = FlushAll
    /\ now = 0
    /\ adminToken \in AdminTokens
    /\ reqs = EmptyBag
    /\ rewrite \in { [NoRewrite EXCEPT !.pc = "input", !.content = c,
                                        !.originalUrl = u] :
                          c \in ManifestInputs, u \in OriginalUrls }

NextRewrite ==
    \/ RewriteDirect
    \/ RewriteDirectAgain
    \/ RewriteContext

SpecRewrite == InitRewrite /\ [][NextRewrite]_vars

----------------------------------------------------------------------------
(* Properties *)

ProxyRoutes == {"proxy-stream", "viper-proxy"}

\* neither manifest nor cacheable-binary
IsOther(url) == ~IsManifest(url) /\ ~IsCacheable(url)

\* the step is the arrival of a request that the handler leaves as r2
Arrived(r2) ==
    \/ reqs' = Add(r2)
    \/ r2.route = "clear-cache" /\ reqs' = Marked (+) SetToBag({r2})

\* the step takes the request r to r2
Stepped(r, r2) == r # r2 /\ reqs' = Replace(r, r2)

\* seconds since the put that stored the entry of key
Age(key) == now - (cache[key].t - stdTTL)

\* C1: every key of the cache is the URL that was fetched to obtain the
\* payload stored under it.
C1_KeyIsFetchedUrl == \A k \in DOMAIN cache : cache[k].src = k

\* C2: no key of the cache is a manifest URL; a request for a manifest never
\* looks the cache up, never puts into it, is never served from it, and has
\* issued its own upstream fetch.
C2_ManifestNeverCached ==
    /\ \A k \in DOMAIN cache : ~IsManifest(k)
    /\ \A r \in Requests :
           (r.route \in ProxyRoutes /\ IsManifest(r.url)) =>
               /\ r.gets = 0 /\ r.sets = 0 /\ r.via # "cache"
               /\ UrlParse(r.url).ok => r.fetches = 1

C2_Witness ==
    \E r \in Requests :
        /\ IsManifest(r.url) /\ r.status = 200
        /\ r.via = "upstream" /\ DOMAIN cache # {}

\* C3: a request for a cacheable-binary URL whose key has a live entry is
\* answered in the arrival step, without an upstream fetch, with the data and
\* the content type of that entry, and the cache is unchanged.
C3_HitServesStored ==
    [][\A r \in BagToSet(reqs') :
          (r.route \in ProxyRoutes /\ IsCacheable(r.url) /\ CacheHas(r.url)
             /\ Arrived(r)) =>
              LET e == cache[r.url]
              IN /\ r.pc = "done" /\ r.status = 200 /\ r.sent = 1
                 /\ r.fetches = 0 /\ r.body = e.data /\ r.hdrCT = e.contentType
                 /\ cache' = cache]_vars

C3_Witness ==
    \E r \in Requests :
        /\ r.via = "cache" /\ r.hdrCT = "video/mp2t"
        /\ r.url \in DOMAIN cache

\* C4: a request whose upstream fetch returned a status outside 200..299 has
\* ended with one 500 whose message carries that status and has put nothing
\* into the cache; the step that handles the status leaves the cache as it is.
C4_UpstreamErrorIs500 ==
    /\ [](\A r \in Requests :
             (r.upstream # 0 /\ ~(r.upstream >= 200 /\ r.upstream <= 299)) =>
                 /\ r.pc = "done" /\ r.status = 500 /\ r.sent = 1
                 /\ r.error.prefix = "Failed to proxy stream: "
                 /\ r.error.code = r.upstream
                 /\ r.sets = 0)
    /\ [][\/ cache' = cache
          \/ \A r \in Requests, r2 \in BagToSet(reqs') :
                 ~(/\ r.pc = "fetching" /\ r2.upstream # 0
                   /\ ~(r2.upstream >= 200 /\ r2.upstream <= 299)
                   /\ Stepped(r, r2))]_vars

C4_Witness ==
    \E r \in Requests :
        /\ r.upstream = 404 /\ r.status = 500
        /\ IsCacheable(r.url) /\ r.url \notin DOMAIN cache

\* C5: /clear-cache with a token other than the configured admin secret
\* answers 403 and leaves the cache as it is; with the admin secret it empties
\* the cache and reports the number of entries it held.
C5_ClearNeedsAdminSecret ==
    [][\A r \in BagToSet(reqs') :
          (r.route = "clear-cache" /\ Arrived(r)) =>
              IF r.token # adminToken
              THEN r.status = 403 /\ cache' = cache
              ELSE /\ r.status = 200 /\ cache' = FlushAll
                   /\ r.removed = KeysCount]_vars

\* C6 as claimed: a lookup of a key whose entry is at least stdTTL old is a
\* miss, and the request goes on to fetch upstream.
C6_ExpiredAtTTL ==
    [][\A k \in DOMAIN cache :
          Age(k) >= stdTTL =>
              \A r \in BagToSet(reqs') :
                  (r.url = k /\ r.route \in ProxyRoutes /\ r.gets = 1
                     /\ Arrived(r)) =>
                      r.via # "cache" /\ r.pc = "fetching" /\ r.fetches = 1]_vars

\* C6 as amended: a lookup of a key whose entry is more than stdTTL old is a
\* miss, swept or not, and the request goes on to fetch upstream; only a put
\* changes the expiry time of an entry (a hit does not extend its life).
C6_ExpiredAfterTTL ==
    [][\A k \in DOMAIN cache :
          /\ Age(k) > stdTTL =>
                 \A r \in BagToSet(reqs') :
                     (r.url = k /\ r.route \in ProxyRoutes /\ r.gets = 1
                        /\ Arrived(r)) =>
                         r.via # "cache" /\ r.pc = "fetching" /\ r.fetches = 1
          /\ (k \in DOMAIN cache' /\ cache'[k].t # cache[k].t) =>
                 \E r \in Requests, r2 \in BagToSet(reqs') :
                     r2.url = k /\ r2.sets = r.sets + 1 /\ Stepped(r, r2)]_vars

C6_Witness ==
    \E r \in Requests : r.found = "expired" /\ r.pc = "fetching"

\* C7: a request issues at most one upstream fetch and sends at most one
\* response; a request that has answered has answered once, and a request
\* whose fetch failed has answered and is not fetching again.
C7_NoRetry ==
    \A r \in Requests :
        /\ r.fetches <= 1 /\ r.sent <= 1
        /\ r.pc = "done" => r.sent = 1
        /\ r.status = 500 => r.pc = "done"
        /\ r.upstream \notin {0, 200} => r.pc = "done"

C7_Witness ==
    \E r \in Requests :
        /\ r.status = 500 /\ r.fetches = 1
        /\ r.error.cause \in {"network", "Failed to fetch: "}

\* C8: every proxy request that has ended otherwise than with a 200 or a 400
\* has ended with exactly one 500 "Failed to proxy stream: ..." response.
C8_FailureIsOne500 ==
    \A r \in Requests :
        (r.route \in ProxyRoutes /\ r.pc \in {"done", "stalled"}
           /\ r.status \notin {200, 400}) =>
            /\ r.pc = "done" /\ r.status = 500 /\ r.sent = 1
            /\ r.error.prefix = "Failed to proxy stream: "

\* C9: on both proxy routes a request with a URL that is not empty and does
\* not parse is answered 400, with no upstream fetch and no cache put.
C9_UnparseableIs400 ==
    \A r \in Requests :
        (r.route \in ProxyRoutes /\ r.url # <<>> /\ ~UrlParse(r.url).ok) =>
            r.status = 400 /\ r.fetches = 0 /\ r.sets = 0

\* C10: a request for a URL that is neither manifest nor cacheable-binary
\* never looks the cache up and never puts into it, none of its steps changes
\* the cache, and its 200 response is the piped upstream stream.
C10_OtherBypassesCache ==
    /\ [](\A r \in Requests :
             (r.route \in ProxyRoutes /\ IsOther(r.url)) =>
                 /\ r.gets = 0 /\ r.sets = 0 /\ r.via # "cache"
                 /\ r.status = 200 => (r.via = "pipe" /\ r.body = Streamed))
    /\ [][\/ cache' = cache
          \/ \A r2 \in BagToSet(reqs') :
                 ~(/\ r2.route \in ProxyRoutes /\ IsOther(r2.url)
                   /\ (Arrived(r2) \/ \E r \in Requests : Stepped(r, r2)))]_vars

C10_Witness ==
    \E r \in Requests :
        /\ r.url = Live /\ r.status = 200
        /\ r.via = "pipe" /\ DOMAIN cache # {}

\* C11: two requests for the same cacheable key can both miss and both be
\* fetching at once; every entry of the cache and every response read from
\* upstream is the payload and the content type of one upstream response,
\* never a mixture of two; a put leaves under its key exactly what the
\* request that puts read, whatever was there, and leaves the other keys alone.
C11_LastWriteWins ==
    /\ [](\A k \in DOMAIN cache :
             \E resp \in Responses :
                 /\ cache[k].data = resp.body
                 /\ cache[k].contentType = resp.contentType)
    /\ [](\A r \in Requests :
             (r.route \in ProxyRoutes /\ IsCacheable(r.url)
                /\ r.pc = "done" /\ r.via = "upstream") =>
                 /\ r.status = 200 /\ r.sent = 1 /\ r.sets = 1
                 /\ \E own \in Responses :
                        r.body = own.body /\ r.hdrCT = own.contentType)
    /\ [][\/ cache' = cache
          \/ \A r \in Requests, r2 \in BagToSet(reqs') :
                 (r.pc = "buffer" /\ r2.sets = r.sets + 1 /\ Stepped(r, r2)) =>
                     /\ DOMAIN cache' = DOMAIN cache \cup {r.url}
                     /\ cache'[r.url].data = r.response.body
                     /\ cache'[r.url].contentType = r.response.contentType
                     /\ \A k \in DOMAIN cache \ {r.url} : cache'[k] = cache[k]]_vars

C11_Witness ==
    \E r1 \in Requests, r2 \in Requests :
        /\ r1.url = r2.url /\ r1.route = r2.route
        /\ r1.pc = "done" /\ r1.sets = 1
        /\ r2.pc = "buffer" /\ r2.response.body # r1.body
        /\ CacheHas(r1.url) /\ cache[r1.url].data = r1.body

\* C12: right after a put of a cacheable-binary key, a get of that key returns
\* exactly the payload and the content type that were put, whatever entry the
\* key had before, and the age of the entry is zero.
C12_PutThenGet ==
    [][\A r \in Requests, r2 \in BagToSet(reqs') :
          (r.pc = "buffer" /\ r2.sets = r.sets + 1 /\ Stepped(r, r2)) =>
              /\ IsCacheable(r.url)
              /\ CacheGet(r.url)' = [data |-> r.response.body,
                                     contentType |-> r.response.contentType]
              /\ Age(r.url)' = 0]_vars

C12_Witness ==
    \E r1 \in Requests, r2 \in Requests :
        /\ r1.url = r2.url /\ r1.sets = 1 /\ r2.sets = 1
        /\ r1.body # r2.body /\ now > 0
        /\ CacheGet(r1.url) = [data |-> r1.body, contentType |-> r1.hdrCT]
        /\ Age(r1.url) = 0

\* the line begins with a URL scheme
StartsWithScheme(line) == Len(line) >= 1 /\ line[1] \in Schemes

\* the line begins with '#'
StartsWithHash(line) == Len(line) >= 1 /\ line[1] = "#"

\* C13: the output of the direct rewriter has the lines of its input in
\* order, every line that begins with a scheme (and not with '#') replaced by
\* '/proxy-stream/' and the line, every other line as it was.
C13_DirectRewritesSchemeLines ==
    rewrite.pc \in {"direct", "direct2"} =>
        /\ Len(rewrite.out) = Len(rewrite.content)
        /\ \A i \in 1..Len(rewrite.content) :
               LET line == rewrite.content[i]
               IN rewrite.out[i] =
                      IF StartsWithScheme(line) /\ ~StartsWithHash(line)
                      THEN <<"/proxy-stream/">> \o line
                      ELSE line

\* C14: in both modes every line that begins with '#' is in the output as it
\* is in the input.
C14_HashLinesUntouched ==
    rewrite.pc \in {"direct", "direct2", "context"} =>
        /\ Len(rewrite.out) = Len(rewrite.content)
        /\ \A i \in 1..Len(rewrite.content) :
               StartsWithHash(rewrite.content[i]) =>
                   rewrite.out[i] = rewrite.content[i]

\* C15: the direct rewriter applied to its own output changes nothing, and
\* no line of its output begins with a scheme.
C15_DirectIdempotent ==
    rewrite.pc = "direct2" =>
        /\ rewrite.again = rewrite.out
        /\ \A i \in 1..Len(rewrite.out) : ~StartsWithScheme(rewrite.out[i])

\* C16: in context-aware mode with an original URL that does not parse, the
\* lines that need that URL (matched, and not absolute) are in the output as
\* they are in the input, and the absolute lines are still rewritten.
C16_UnparseableLeavesRelative ==
    (rewrite.pc = "context" /\ ~UrlParse(rewrite.originalUrl).ok) =>
        /\ Len(rewrite.out) = Len(rewrite.content)
        /\ \A i \in 1..Len(rewrite.content) :
               LET line == rewrite.content[i]
               IN IF MatchesContext(line) /\ StartsWithScheme(line)
                  THEN rewrite.out[i] = <<"/proxy-stream/">> \o line
                  ELSE rewrite.out[i] = line

\* the gateway URL for the host (name and port), the path and the query of url
GatewayUrl(url) ==
    LET u == UrlParse(url)
    IN <<"https://", "embed.su", "/api/proxy/viper/">>
           \o u.host \o u.pathname \o u.search

Extension(url) ==
    LET p == UrlParse(url).pathname
    IN IF Len(p) >= 2 /\ p[Len(p) - 1] = "." THEN p[Len(p)] ELSE ""

Category(url) ==
    IF Extension(url) = "m3u8" THEN "manifest"
    ELSE IF Extension(url) \in {"ts", "jpg", "html"} THEN "cacheable-binary"
    ELSE "other"

\* C18: a request follows the branch of the category that the extension of
\* its URL gives: only cacheable-binary requests look the cache up and put
\* into it, and all of them do; only manifests are read as text; only
\* others are piped.
C18_BranchByExtension ==
    \A r \in Requests :
        (r.route \in ProxyRoutes /\ UrlParse(r.url).ok) =>
            /\ r.gets = 1 <=> Category(r.url) = "cacheable-binary"
            /\ r.sets = 1 => Category(r.url) = "cacheable-binary"
            /\ r.pc = "buffer" => Category(r.url) = "cacheable-binary"
            /\ r.pc = "text" => Category(r.url) = "manifest"
            /\ r.pc = "piping" => Category(r.url) = "other"

\* the URL that a request fetches on a miss on its route
MissTarget(r) ==
    IF r.route = "viper-proxy" THEN TransformUrl(UrlParse(r.url)) ELSE r.url

\* C19: a request that is served from the cache is served a payload that was
\* fetched from the URL the request itself fetches on a miss.
C19_HitFromOwnUpstream ==
    [][\A r \in BagToSet(reqs') :
          (r.route \in ProxyRoutes /\ r.via = "cache" /\ Arrived(r)) =>
              cache[r.url].src = MissTarget(r)]_vars

\* C20: a request that missed and issued its fetch before an authorised
\* /clear-cache puts nothing into the cache when its body read completes
\* after the clear.
C20_NoPutAfterClear ==
    [][\A r \in Requests, r2 \in BagToSet(reqs') :
          (r.cleared /\ r.pc = "buffer" /\ Stepped(r, r2)) =>
              r2.sets = r.sets /\ cache' = cache]_vars

====
